---- MODULE Spec2Model ----
(***************************************************************************)
(* Upbit listings bot (src/1.py): the bootstrap of the two baseline        *)
(* documents, the poll loop with its markets step and its notices step,    *)
(* and the health status the loop writes.                                  *)
(*                                                                         *)
(* Strings are sequences of characters (market codes) or of tokens         *)
(* (titles, hrefs), so that upper(), startswith(), sorted() and the        *)
(* href normalisation are computed and not assumed.                        *)
(***************************************************************************)
EXTENDS Naturals, Sequences, FiniteSets

(* ------------------------------ bounds -------------------------------- *)

\* how many of the market codes of CodeTable the exchange may list
NumCodes == 2
\* how many anchors the notice page may hold
MaxAnchors == 2
\* how many distinct instants datetime.now() ranges over (it wraps)
ClockMod == 2

(* --------------------------- strings ---------------------------------- *)

Range(s) == {s[i] : i \in 1..Len(s)}

Min(a, b) == IF a <= b THEN a ELSE b

\* the characters used, in code point order: '-' < 'A'..'Z' < 'a'..'z'
Alphabet ==
    << "-", "B", "C", "D", "E", "H", "J", "K", "L", "O", "P", "R", "S", "T",
       "U", "W", "X", "Y", "e", "h", "k", "r", "t", "w" >>

Ord(c) == CHOOSE i \in 1..Len(Alphabet) : Alphabet[i] = c

\* str.upper() on one character
UpperChar(c) ==
    CASE c = "e" -> "E" [] c = "h" -> "H" [] c = "k" -> "K" [] c = "r" -> "R"
      [] c = "t" -> "T" [] c = "w" -> "W" [] OTHER -> c

\* str.upper()
Upper(s) == [i \in 1..Len(s) |-> UpperChar(s[i])]

\* str.startswith(pref)
StartsWith(s, pref) ==
    /\ Len(pref) <= Len(s)
    /\ \A i \in 1..Len(pref) : s[i] = pref[i]

\* Python's str comparison: code point order, a proper prefix is smaller
StrLess(a, b) ==
    \E k \in 1..(Min(Len(a), Len(b)) + 1) :
        /\ \A i \in 1..(k - 1) : a[i] = b[i]
        /\ \/ k = Len(a) + 1 /\ k <= Len(b)
           \/ k <= Len(a) /\ k <= Len(b) /\ Ord(a[k]) < Ord(b[k])

\* sorted(S) for a set of strings
RECURSIVE SortStrings(_)
SortStrings(S) ==
    IF S = {} THEN << >>
    ELSE LET m == CHOOSE x \in S : \A y \in S \ {x} : StrLess(x, y)
         IN  << m >> \o SortStrings(S \ {m})

\* sorted(S) for a set of hex digests (numbered in digest order)
RECURSIVE SortIds(_)
SortIds(S) ==
    IF S = {} THEN << >>
    ELSE LET m == CHOOSE x \in S : \A y \in S : x <= y
         IN  << m >> \o SortIds(S \ {m})

(* --------------------------- configuration ---------------------------- *)

KRW_BTC == << "K", "R", "W", "-", "B", "T", "C" >>
krw_eth == << "k", "r", "w", "-", "e", "t", "h" >>
JPY_XRP == << "J", "P", "Y", "-", "X", "R", "P" >>
USDT_SOL == << "U", "S", "D", "T", "-", "S", "O", "L" >>
KRW_DOT == << "K", "R", "W", "-", "D", "O", "T" >>

\* the market codes an exchange catalog is drawn from
CodeTable == << krw_eth, JPY_XRP, KRW_BTC, USDT_SOL, KRW_DOT >>

MarketCodes == {CodeTable[i] : i \in 1..Min(NumCodes, Len(CodeTable))}

\* os.getenv("FILTER_MARKETS", "KRW,USDT").split(","): the default, a
\* lower-case single prefix, and the empty setting
FilterEnvs ==
    { << << "K", "R", "W" >>, << "U", "S", "D", "T" >> >>,
      << << "j", "p", "y" >> >>,
      << << >> >> }

\* FILTER_MARKETS = [p.strip().upper() + "-" for p in ... if p.strip()]
FilterMarkets(env) ==
    LET kept == SelectSeq(env, LAMBDA p : p # << >>)
    IN  [i \in 1..Len(kept) |-> Upper(kept[i]) \o << "-" >>]

(* --------------------------- notice page ------------------------------ *)

\* titles are sequences of words, hrefs sequences of path tokens
TitleA == << "Listing", "KRW", "ABC" >>
TitleB == << "new", "listing", "usdt", "XYZ" >>
TitleJ == << "listing", "BTC", "QQQ" >>

HrefA == << "/", "n1" >>
HrefAabs == << "https://upbit.com", "/", "n1" >>
HrefB == << "/", "n2" >>
HrefJ == << "/", "n3" >>

\* the <a href> elements a notice page is drawn from; the second is the
\* first with its link already absolute, the last names no quote currency
Anchors ==
    { [title |-> TitleA, href |-> HrefA],
      [title |-> TitleA, href |-> HrefAabs],
      [title |-> TitleB, href |-> HrefB],
      [title |-> TitleJ, href |-> HrefJ] }

RECURSIVE SeqsUpTo(_, _)
SeqsUpTo(S, n) ==
    IF n = 0 THEN { << >> }
    ELSE LET shorter == SeqsUpTo(S, n - 1)
         IN  shorter \cup {Append(s, x) : s \in shorter, x \in S}

Pages == SeqsUpTo(Anchors, MaxAnchors)

\* re.I: case folding of a word
Fold(w) ==
    CASE w = "Listing" -> "listing" [] w = "KRW" -> "krw"
      [] w = "USDT" -> "usdt" [] OTHER -> w

\* re.search(r"(...|listing|...|new\s*listing)", title, re.I)
HasListingKeyword(title) == \E i \in 1..Len(title) : Fold(title[i]) = "listing"

\* NOTICE_MARKET_PATTERN.search(title)
NOTICE_MARKET_PATTERN(title) ==
    \E i \in 1..Len(title) : Fold(title[i]) \in {"krw", "usdt"}

\* if href.startswith("/"): href = "https://upbit.com" + href
AbsoluteHref(href) ==
    IF href # << >> /\ href[1] = "/" THEN << "https://upbit.com" >> \o href
    ELSE href

\* the texts hashlib.sha256 is applied to, in the order of their digests
DigestTable ==
    << TitleB \o << "|" >> \o AbsoluteHref(HrefB),
       TitleJ \o << "|" >> \o AbsoluteHref(HrefJ),
       TitleA \o << "|" >> \o AbsoluteHref(HrefA) >>

\* hashlib.sha256((title + "|" + href).encode("utf-8")).hexdigest()[:16]
Digest(title, href) ==
    CHOOSE i \in 1..Len(DigestTable) : DigestTable[i] = title \o << "|" >> \o href

NoticeIds == {Digest(a.title, AbsoluteHref(a.href)) : a \in Anchors}

\* the body of the for loop of fetch_listing_notices for one anchor: the
\* items it appends
ParseAnchor(a) ==
    IF a.title = << >> \/ a.href = << >> THEN << >>
    ELSE IF ~HasListingKeyword(a.title) THEN << >>
    ELSE IF ~NOTICE_MARKET_PATTERN(a.title) THEN << >>
    ELSE LET url == AbsoluteHref(a.href)
         IN  << [id |-> Digest(a.title, url), title |-> a.title, url |-> url] >>

\* the items fetch_listing_notices returns for a page it fetched
RECURSIVE ParseNotices(_)
ParseNotices(page) ==
    IF page = << >> THEN << >>
    ELSE ParseAnchor(Head(page)) \o ParseNotices(Tail(page))

(* --------------------------- baseline store --------------------------- *)

\* what a path can hold: no file, a file that is not JSON (also a file
\* truncated by a failed write), JSON that is a list, a JSON object whose
\* field is null, a JSON object without the field, and the object the
\* program writes, {"markets": [...]} or {"ids": [...]}
Doc(kind, val) == [kind |-> kind, val |-> val]

AbsentDoc == Doc("absent", << >>)
CorruptDoc == Doc("corrupt", << >>)
ForeignDocs ==
    { AbsentDoc, CorruptDoc, Doc("list", << >>), Doc("nullfield", << >>),
      Doc("nofield", << >>) }

MarketDocs == ForeignDocs \cup {Doc("object", SortStrings(S)) : S \in SUBSET MarketCodes}
NoticeDocs == ForeignDocs \cup {Doc("object", SortIds(S)) : S \in SUBSET NoticeIds}

\* os.path.exists(path)
Exists(doc) == doc.kind # "absent"

\* load_cache(path, default): the parsed JSON, or the default when open or
\* json.load raises
load_cache(doc, default) ==
    IF doc.kind \in {"absent", "corrupt"} THEN default ELSE doc

\* whether set(cache.get(field, [])) raises on what load_cache returned:
\* a list has no .get, and set(None) is a TypeError
KnownRaises(cache) == cache.kind \in {"list", "nullfield"}

\* set(cache.get(field, []))
KnownOf(cache) == IF cache.kind = "object" THEN Range(cache.val) ELSE {}

\* how a save_cache call can end: written, open() raised (the file is as it
\* was), or the write raised after open() truncated the file
SaveOutcomes == {"written", "open_raises", "write_raises"}

\* a save that opens the file to append: on a file that exists the text is
\* no longer one JSON value
save_cache_append(doc, data, outcome) ==
    CASE outcome = "written" ->
             IF doc.kind = "absent" THEN Doc("object", data) ELSE CorruptDoc
      [] outcome = "open_raises" -> doc
      [] outcome = "write_raises" -> CorruptDoc

\* the file after save_cache(path, data)
save_cache(doc, data, outcome) ==
    CASE outcome = "written" -> Doc("object", data)
      [] outcome = "open_raises" -> doc
      [] outcome = "write_raises" -> CorruptDoc

(* --------------------------- diff engine ------------------------------ *)

\* a diff that reports the whole catalog as new
detect_new_markets_all(old_set, markets) ==
    [new_markets |-> SortStrings(markets), current |-> markets]

\* detect_new_markets(old_set, markets): (sorted(current - old_set), current)
detect_new_markets(old_set, markets) ==
    [new_markets |-> SortStrings(markets \ old_set), current |-> markets]

\* the filter without its upper(): a lower-case code never passes
passes_prefix_filter_cased(market_code, prefixes) ==
    \E i \in 1..Len(prefixes) : StartsWith(market_code, prefixes[i])

\* _passes_prefix_filter(market_code) under FILTER_MARKETS = prefixes
passes_prefix_filter(market_code, prefixes) ==
    LET up == Upper(market_code)
    IN  \E i \in 1..Len(prefixes) : StartsWith(up, prefixes[i])

\* filtered = [mk for mk in new_markets if _passes_prefix_filter(mk)]
FilteredMarkets(newm, prefixes) ==
    SelectSeq(newm, LAMBDA mk : passes_prefix_filter(mk, prefixes))

\* fresh = [n for n in notices if n["id"] not in known_notice_ids]
FreshNotices(notices, known) == SelectSeq(notices, LAMBDA n : n.id \notin known)

\* {n["id"] for n in items}
IdsOf(items) == {items[i].id : i \in 1..Len(items)}

\* datetime.now(timezone.utc).isoformat(): an instant later than the last
\* one recorded; 0 stands for None
NoTimestamp == 0
Now(last) == (last % ClockMod) + 1

\* TG_CHAT_ID: not set (or empty), or the id of a chat
NoChat == ""
ChatIds == {NoChat, "chat"}

\* send_message(text): how the call ends; it never raises
send_message(chat_id, up) ==
    IF chat_id = NoChat THEN "skipped"
    ELSE IF up THEN "sent"
    ELSE "failed"

\* bootstrap_baseline has not run
NoRun == << >>

\* one try block of bootstrap_baseline: whether its fetch raised, what the
\* fetch returned, and how its save_cache ended
BootStep(raised, data, save) == [raised |-> raised, data |-> data, save |-> save]

(* ------------------------------ state --------------------------------- *)

VARIABLES
    pc,                  \* where the main thread is
    FILTER_MARKETS,      \* the configured prefixes
    upbit_markets,       \* the codes the exchange catalog lists now
    upbit_notices,       \* the anchors of the notice page now
    cache_file,          \* CACHE_FILE
    notices_cache_file,  \* NOTICES_CACHE_FILE
    known_markets,
    known_notice_ids,
    new_markets,
    current,
    fresh,
    markets_ok,
    notices_ok,
    last_cycle_ok,
    last_cycle_at,
    sent_markets,        \* the codes of this cycle's new-market message
    notified_markets,    \* the codes of the messages of earlier cycles
    cold_unchanged,      \* started with no document, sources as at the start,
                         \* first cycle not over
    CHAT_ID,             \* TG_CHAT_ID
    telegram_up,         \* whether bot.send_message gets through now
    markets_dispatch,    \* how this cycle's new-market message ended
    notices_dispatch,    \* how this cycle's notice message ended
    sent_notices,        \* the ids of this cycle's notice message
    undelivered_markets, \* the codes of earlier messages that failed or were
                         \* skipped
    notified_notices,    \* the ids of the messages of earlier cycles
    notices,             \* what fetch_listing_notices returned this cycle
    steady,              \* the last cycle to end succeeded in both steps on
                         \* the sources as they are now
    hpc,                 \* where a /health request is
    h_ok,                \* the "ok" it has read
    h_at,                \* the "last_cycle_at" it has read
    h_seen,              \* the status pairs there have been since it began
    boot_run,            \* what this run of bootstrap_baseline got
    prev_boot            \* the same of the run before, and the documents it left

vars ==
    << pc, FILTER_MARKETS, upbit_markets, upbit_notices, cache_file,
       notices_cache_file, known_markets, known_notice_ids, new_markets,
       current, fresh, markets_ok, notices_ok, last_cycle_ok, last_cycle_at,
       sent_markets, notified_markets, cold_unchanged, CHAT_ID, telegram_up,
       markets_dispatch, notices_dispatch, sent_notices, undelivered_markets,
       notified_notices, notices, steady, hpc, h_ok, h_at, h_seen, boot_run,
       prev_boot >>

config == << FILTER_MARKETS >>
sources == << upbit_markets, upbit_notices >>
files == << cache_file, notices_cache_file >>
market_locals == << new_markets, current >>
status == << last_cycle_ok, last_cycle_at >>
history == << sent_markets, notified_markets >>
sink == << CHAT_ID, telegram_up >>
outbox ==
    << markets_dispatch, notices_dispatch, sent_notices, undelivered_markets,
       notified_notices >>
replay == << notices, steady >>
reader == << hpc, h_ok, h_at, h_seen >>
boot_hist == << boot_run, prev_boot >>

Init ==
    /\ pc = "start"
    /\ FILTER_MARKETS \in {FilterMarkets(env) : env \in FilterEnvs}
    /\ upbit_markets \in SUBSET MarketCodes
    /\ upbit_notices \in Pages
    /\ cache_file \in MarketDocs
    /\ notices_cache_file \in NoticeDocs
    /\ known_markets = {}
    /\ known_notice_ids = {}
    /\ new_markets = << >>
    /\ current = {}
    /\ fresh = << >>
    /\ markets_ok = TRUE
    /\ notices_ok = TRUE
    /\ last_cycle_ok = TRUE
    /\ last_cycle_at = NoTimestamp
    /\ sent_markets = {}
    /\ notified_markets = {}
    /\ cold_unchanged = FALSE
    /\ CHAT_ID \in ChatIds
    /\ telegram_up \in BOOLEAN
    /\ markets_dispatch = "none"
    /\ notices_dispatch = "none"
    /\ sent_notices = {}
    /\ undelivered_markets = {}
    /\ notified_notices = {}
    /\ notices = << >>
    /\ steady = FALSE
    /\ hpc = "idle"
    /\ h_ok = TRUE
    /\ h_at = NoTimestamp
    /\ h_seen = {}
    /\ boot_run = NoRun
    /\ prev_boot = NoRun

(* ----------------------------- startup -------------------------------- *)

\* a start that runs the bootstrap only when no document exists
NeedsBootstrapBothAbsent(mdoc, ndoc) == ~Exists(mdoc) /\ ~Exists(ndoc)

\* if not os.path.exists(CACHE_FILE) or not os.path.exists(NOTICES_CACHE_FILE)
NeedsBootstrap(mdoc, ndoc) == ~Exists(mdoc) \/ ~Exists(ndoc)

\* __main__: the check of the two documents
Startup ==
    /\ pc = "start"
    /\ pc' = IF NeedsBootstrap(cache_file, notices_cache_file)
             THEN "boot_markets" ELSE "load"
    /\ cold_unchanged' = (~Exists(cache_file) /\ ~Exists(notices_cache_file))
    /\ UNCHANGED << config, sink, outbox, replay, reader,
                    boot_hist, sources, files, known_markets, known_notice_ids,
                    market_locals, fresh, markets_ok, notices_ok, status,
                    history >>

\* bootstrap_baseline, first try block
BootstrapMarkets ==
    /\ pc = "boot_markets"
    /\ pc' = "boot_notices"
    /\ \/ \* fetch_markets() raises
          /\ UNCHANGED cache_file
          /\ boot_run' = << BootStep(TRUE, << >>, "none") >>
       \/ \E outcome \in SaveOutcomes :
              /\ cache_file' =
                     save_cache(cache_file, SortStrings(upbit_markets), outcome)
              /\ boot_run' =
                     << BootStep(FALSE, SortStrings(upbit_markets), outcome) >>
    /\ UNCHANGED << config, sink, outbox, replay, reader, prev_boot, sources,
                    notices_cache_file, known_markets,
                    known_notice_ids, market_locals, fresh, markets_ok,
                    notices_ok, status, history, cold_unchanged >>

\* what fetch_listing_notices() can return for a page: its items, or [] after
\* a timeout or a request error
NoticeFetches(page) == {ParseNotices(page), << >>}

\* bootstrap_baseline, second try block
BootstrapNotices ==
    /\ pc = "boot_notices"
    /\ pc' = "load"
    /\ \/ \* fetch_listing_notices() raises
          /\ UNCHANGED notices_cache_file
          /\ boot_run' = Append(boot_run, BootStep(TRUE, << >>, "none"))
       \/ \E fetched \in NoticeFetches(upbit_notices), outcome \in SaveOutcomes :
              /\ notices_cache_file' =
                     save_cache(notices_cache_file, SortIds(IdsOf(fetched)), outcome)
              /\ boot_run' = Append(boot_run, BootStep(FALSE, fetched, outcome))
    /\ UNCHANGED << config, sink, outbox, replay, reader, prev_boot, sources,
                    cache_file, known_markets,
                    known_notice_ids, market_locals, fresh, markets_ok,
                    notices_ok, status, history, cold_unchanged >>

\* main_loop before the loop: the two known sets from the two documents
LoadBaseline ==
    /\ pc = "load"
    /\ LET markets_cache == load_cache(cache_file, Doc("object", << >>))
           notices_cache == load_cache(notices_cache_file, Doc("object", << >>))
       IN  IF KnownRaises(markets_cache)
           THEN /\ pc' = "crashed"
                /\ UNCHANGED << known_markets, known_notice_ids >>
           ELSE IF KnownRaises(notices_cache)
           THEN /\ pc' = "crashed"
                /\ known_markets' = KnownOf(markets_cache)
                /\ UNCHANGED known_notice_ids
           ELSE /\ pc' = "started"
                /\ known_markets' = KnownOf(markets_cache)
                /\ known_notice_ids' = KnownOf(notices_cache)
    /\ boot_run' = NoRun
    /\ UNCHANGED << config, sink, outbox, replay, reader, prev_boot, sources,
                    files, market_locals, fresh, markets_ok,
                    notices_ok, status, history, cold_unchanged >>

\* send_message("... bot started"), then into the loop
StartMessage ==
    /\ pc = "started"
    /\ pc' = "m_fetch"
    /\ UNCHANGED << config, sink, outbox, replay, reader,
                    boot_hist, sources, files, known_markets, known_notice_ids,
                    market_locals, fresh, markets_ok, notices_ok, status,
                    history, cold_unchanged >>

(* ----------------------------- poll loop ------------------------------ *)

\* a handler that lets the exception out of the loop
ExceptHandlerRaises(after) == "crashed"

\* except Exception as e: the handler logs, and control goes on with the
\* statement after the try
ExceptHandler(after) == after

\* main_loop step 1, the fetch and the diff; an exception of fetch_markets
\* or of the diff (a record without "market") ends the step in the handler
MarketsFetch ==
    /\ pc = "m_fetch"
    /\ \/ \* fetch_markets() or detect_new_markets raises
          /\ markets_ok' = FALSE
          /\ pc' = ExceptHandler("n_fetch")
          /\ UNCHANGED market_locals
       \/ LET d == detect_new_markets(known_markets, upbit_markets)
          IN  /\ new_markets' = d.new_markets
              /\ current' = d.current
              /\ IF d.new_markets # << >>
                 THEN pc' = "m_notify" /\ UNCHANGED markets_ok
                 ELSE pc' = "n_fetch" /\ markets_ok' = TRUE
    /\ UNCHANGED << config, sink, outbox, replay, reader,
                    boot_hist, sources, files, known_markets, known_notice_ids,
                    fresh, notices_ok, status, history, cold_unchanged >>

\* a notifier that returns before it sends
notify_new_markets_none(newm, prefixes) == {}

\* notify_new_markets(new_markets, markets): the codes of the one message
\* handed to send_message (none when nothing passes the filter)
notify_new_markets(newm, prefixes) == Range(FilteredMarkets(newm, prefixes))

\* main_loop step 1, the notification; send_message never raises, and is
\* not called when nothing passes the filter
MarketsNotify ==
    /\ pc = "m_notify"
    /\ sent_markets' = notify_new_markets(new_markets, FILTER_MARKETS)
    /\ markets_dispatch' = IF sent_markets' = {} THEN "none"
                           ELSE send_message(CHAT_ID, telegram_up)
    /\ pc' = "m_persist"
    /\ UNCHANGED << config, sink, notices_dispatch, sent_notices,
                    undelivered_markets, notified_notices, replay, reader,
                    boot_hist, sources, files, known_markets, known_notice_ids,
                    market_locals, fresh, markets_ok, notices_ok, status,
                    notified_markets, cold_unchanged >>

\* known_markets = current
NextKnownMarkets(known, cur) == cur

\* main_loop step 1, the baseline update and its save; an exception of
\* save_cache ends the step in the handler
MarketsPersist ==
    /\ pc = "m_persist"
    /\ known_markets' = NextKnownMarkets(known_markets, current)
    /\ \E outcome \in SaveOutcomes :
           /\ cache_file' =
                  save_cache(cache_file, SortStrings(known_markets'), outcome)
           /\ markets_ok' = (outcome = "written")
           /\ pc' = IF outcome = "written" THEN "n_fetch"
                    ELSE ExceptHandler("n_fetch")
    /\ UNCHANGED << config, sink, outbox, replay, reader,
                    boot_hist, sources, notices_cache_file, known_notice_ids,
                    market_locals, fresh, notices_ok, status, history,
                    cold_unchanged >>

\* main_loop step 2, the fetch and the membership test
NoticesFetch ==
    /\ pc = "n_fetch"
    /\ \/ \* fetch_listing_notices() raises something it does not catch
          /\ notices_ok' = FALSE
          /\ pc' = ExceptHandler("mark")
          /\ UNCHANGED << notices, fresh >>
       \/ \E fetched \in NoticeFetches(upbit_notices) :
              /\ notices' = fetched
              /\ fresh' = FreshNotices(fetched, known_notice_ids)
              /\ IF fresh' # << >>
                 THEN pc' = "n_notify" /\ UNCHANGED notices_ok
                 ELSE pc' = "mark" /\ notices_ok' = TRUE
    /\ UNCHANGED << config, sink, outbox, steady, reader, boot_hist, sources,
                    files, known_markets, known_notice_ids, market_locals,
                    markets_ok, status, history, cold_unchanged >>

\* notify_new_notices(new_items): the ids of the one message handed to
\* send_message, every item in it
notify_new_notices(new_items) == IdsOf(new_items)

\* main_loop step 2, the notification
NoticesNotify ==
    /\ pc = "n_notify"
    /\ sent_notices' = notify_new_notices(fresh)
    /\ notices_dispatch' = IF sent_notices' = {} THEN "none"
                           ELSE send_message(CHAT_ID, telegram_up)
    /\ pc' = "n_persist"
    /\ UNCHANGED << config, sink, markets_dispatch, undelivered_markets,
                    notified_notices, replay, reader, boot_hist, sources, files,
                    known_markets, known_notice_ids, market_locals, fresh,
                    markets_ok, notices_ok, status, history, cold_unchanged >>

\* main_loop step 2, the baseline update and its save
NoticesPersist ==
    /\ pc = "n_persist"
    /\ known_notice_ids' = known_notice_ids \cup IdsOf(fresh)
    /\ \E outcome \in SaveOutcomes :
           /\ notices_cache_file' =
                  save_cache(notices_cache_file, SortIds(known_notice_ids'), outcome)
           /\ notices_ok' = (outcome = "written")
           /\ pc' = IF outcome = "written" THEN "mark"
                    ELSE ExceptHandler("mark")
    /\ UNCHANGED << config, sink, outbox, replay, reader,
                    boot_hist, sources, cache_file, known_markets, market_locals,
                    fresh, markets_ok, status, history, cold_unchanged >>

\* a status that never reports a failed cycle
MarksOkAlways(m_ok, n_ok) == TRUE

\* a status that the notices step degrades too
MarksOkBoth(m_ok, n_ok) == m_ok /\ n_ok

\* the status pairs a /health request in progress has lived through, with
\* the pair a write has just made
Seen(ok, at) == IF hpc = "idle" THEN h_seen ELSE h_seen \cup {<< ok, at >>}

\* which of mark_ok and mark_fail the loop calls
MarksOk(m_ok, n_ok) == m_ok

\* a mark_fail that forgets the last success
mark_fail_resets(ok, at) == << FALSE, NoTimestamp >>

\* mark_fail(): the status pair after it
mark_fail(ok, at) == << FALSE, at >>

\* if markets_ok: mark_ok() (its first assignment) else: mark_fail()
Mark ==
    /\ pc = "mark"
    /\ IF MarksOk(markets_ok, notices_ok)
       THEN /\ last_cycle_ok' = TRUE
            /\ UNCHANGED last_cycle_at
            /\ pc' = "mark_ok_at"
       ELSE /\ last_cycle_ok' = mark_fail(last_cycle_ok, last_cycle_at)[1]
            /\ last_cycle_at' = mark_fail(last_cycle_ok, last_cycle_at)[2]
            /\ pc' = "sleep"
    /\ steady' = (markets_ok /\ notices_ok /\ notices = ParseNotices(upbit_notices))
    /\ h_seen' = Seen(last_cycle_ok', last_cycle_at')
    /\ UNCHANGED << config, sink, outbox, notices, hpc, h_ok, h_at, boot_hist,
                    sources, files, known_markets, known_notice_ids,
                    market_locals, fresh, markets_ok, notices_ok, history,
                    cold_unchanged >>

\* mark_ok(), its second assignment
MarkOkAt ==
    /\ pc = "mark_ok_at"
    /\ last_cycle_at' = Now(last_cycle_at)
    /\ pc' = "sleep"
    /\ h_seen' = Seen(last_cycle_ok, last_cycle_at')
    /\ UNCHANGED << config, sink, outbox, replay, hpc, h_ok, h_at,
                    boot_hist, sources, files, known_markets, known_notice_ids,
                    market_locals, fresh, markets_ok, notices_ok, last_cycle_ok,
                    history, cold_unchanged >>

\* time.sleep(POLL_INTERVAL_SEC) and back to the top of the loop; the
\* locals of the cycle are dead from here on
Sleep ==
    /\ pc = "sleep"
    /\ pc' = "m_fetch"
    /\ new_markets' = << >>
    /\ current' = {}
    /\ fresh' = << >>
    /\ notified_markets' = notified_markets \cup sent_markets
    /\ sent_markets' = {}
    /\ cold_unchanged' = FALSE
    /\ undelivered_markets' =
           undelivered_markets \cup
               (IF markets_dispatch \in {"failed", "skipped"} THEN sent_markets
                ELSE {})
    /\ notified_notices' = notified_notices \cup sent_notices
    /\ markets_dispatch' = "none"
    /\ notices_dispatch' = "none"
    /\ sent_notices' = {}
    /\ notices' = << >>
    /\ markets_ok' = TRUE
    /\ notices_ok' = TRUE
    /\ UNCHANGED << config, sink, steady, reader, boot_hist, sources, files,
                    known_markets, known_notice_ids, status >>

\* the exchange changes its catalog, between the start message and the
\* first fetch or while the loop sleeps
CatalogUpdate ==
    /\ pc \in {"started", "sleep"}
    /\ \E c \in SUBSET MarketCodes :
           /\ c # upbit_markets
           /\ upbit_markets' = c
    /\ cold_unchanged' = FALSE
    /\ steady' = FALSE
    /\ UNCHANGED << pc, config, sink, outbox, notices, reader, boot_hist,
                    upbit_notices, files, known_markets,
                    known_notice_ids, market_locals, fresh, markets_ok,
                    notices_ok, status, history >>

\* the exchange changes its notice page, at the same points
PageUpdate ==
    /\ pc \in {"started", "sleep"}
    /\ \E p \in Pages :
           /\ p # upbit_notices
           /\ upbit_notices' = p
    /\ cold_unchanged' = FALSE
    /\ steady' = FALSE
    /\ UNCHANGED << pc, config, sink, outbox, notices, reader, boot_hist,
                    upbit_markets, files, known_markets,
                    known_notice_ids, market_locals, fresh, markets_ok,
                    notices_ok, status, history >>

\* the messaging service becomes unreachable, or reachable again, before a
\* message is handed to it
SinkUpdate ==
    /\ pc \in {"started", "m_notify", "n_notify"}
    /\ telegram_up' = ~telegram_up
    /\ UNCHANGED << pc, config, CHAT_ID, outbox, replay, reader, boot_hist,
                    sources, files, known_markets, known_notice_ids,
                    market_locals, fresh, markets_ok, notices_ok, status,
                    history, cold_unchanged >>

\* the process is stopped from outside and started again: the documents
\* stay, the module globals and the locals of main_loop start afresh
Restart ==
    /\ pc # "start"
    /\ pc' = "start"
    /\ known_markets' = {}
    /\ known_notice_ids' = {}
    /\ new_markets' = << >>
    /\ current' = {}
    /\ fresh' = << >>
    /\ notices' = << >>
    /\ markets_ok' = TRUE
    /\ notices_ok' = TRUE
    /\ last_cycle_ok' = TRUE
    /\ last_cycle_at' = NoTimestamp
    /\ notified_markets' = notified_markets \cup sent_markets
    /\ sent_markets' = {}
    /\ undelivered_markets' =
           undelivered_markets \cup
               (IF markets_dispatch \in {"failed", "skipped"} THEN sent_markets
                ELSE {})
    /\ notified_notices' = notified_notices \cup sent_notices
    /\ markets_dispatch' = "none"
    /\ notices_dispatch' = "none"
    /\ sent_notices' = {}
    /\ steady' = FALSE
    /\ cold_unchanged' = FALSE
    /\ hpc' = "idle"
    /\ h_ok' = TRUE
    /\ h_at' = NoTimestamp
    /\ h_seen' = {}
    /\ prev_boot' = IF Len(boot_run) = 2
                    THEN [run |-> boot_run, files |-> files]
                    ELSE NoRun
    /\ boot_run' = NoRun
    /\ UNCHANGED << config, sink, sources, files >>

\* the main thread has not ended: the daemon thread serves /health
Serving == pc # "crashed"

\* health(), the first global it reads: "ok": last_cycle_ok
HealthReadOk ==
    /\ Serving
    /\ hpc = "idle"
    /\ h_ok' = last_cycle_ok
    /\ h_seen' = {<< last_cycle_ok, last_cycle_at >>}
    /\ hpc' = "read_at"
    /\ UNCHANGED << pc, config, sink, outbox, replay, h_at, boot_hist, sources,
                    files, known_markets, known_notice_ids, market_locals,
                    fresh, markets_ok, notices_ok, status, history,
                    cold_unchanged >>

\* health(), the second global it reads: "last_cycle_at": last_cycle_at
HealthReadAt ==
    /\ Serving
    /\ hpc = "read_at"
    /\ h_at' = last_cycle_at
    /\ hpc' = "done"
    /\ UNCHANGED << pc, config, sink, outbox, replay, h_ok, h_seen, boot_hist,
                    sources, files, known_markets, known_notice_ids,
                    market_locals, fresh, markets_ok, notices_ok, status,
                    history, cold_unchanged >>

\* health() returns its dict; the request is over
HealthReturn ==
    /\ Serving
    /\ hpc = "done"
    /\ hpc' = "idle"
    /\ h_ok' = TRUE
    /\ h_at' = NoTimestamp
    /\ h_seen' = {}
    /\ UNCHANGED << pc, config, sink, outbox, replay, boot_hist, sources,
                    files, known_markets, known_notice_ids, market_locals,
                    fresh, markets_ok, notices_ok, status, history,
                    cold_unchanged >>

\* the thread of run_http, one request at a time
Health == HealthReadOk \/ HealthReadAt \/ HealthReturn

\* the steps of the process
Program ==
    \/ Startup
    \/ BootstrapMarkets
    \/ BootstrapNotices
    \/ LoadBaseline
    \/ StartMessage
    \/ MarketsFetch
    \/ MarketsNotify
    \/ MarketsPersist
    \/ NoticesFetch
    \/ NoticesNotify
    \/ NoticesPersist
    \/ Mark
    \/ MarkOkAt
    \/ Sleep

Next ==
    Program \/ Health \/ CatalogUpdate \/ PageUpdate \/ SinkUpdate \/ Restart

\* the process against every environment; its states are the product of
\* those of the two steps, and are explored through the specifications below
Spec == Init /\ [][Next]_vars

(***************************************************************************)
(* The two steps of a cycle share no variable: the markets step reads and  *)
(* writes the catalog, known_markets and CACHE_FILE, the notices step the  *)
(* page, known_notice_ids and NOTICES_CACHE_FILE.  Each is explored in     *)
(* full against a small environment of the other.                          *)
(***************************************************************************)

AnchorA == [title |-> TitleA, href |-> HrefA]

QuietPages == { << >>, << AnchorA >> }
QuietNoticeDocs == { AbsentDoc, Doc("object", << >>) }

\* a chat is configured and every message gets through
QuietSink == CHAT_ID = "chat" /\ telegram_up = TRUE

\* every catalog, every CACHE_FILE and every filter; the catalog changes
MarketsInit ==
    /\ upbit_notices \in QuietPages
    /\ notices_cache_file \in QuietNoticeDocs
    /\ QuietSink
    /\ Init

MarketsNext == Program \/ CatalogUpdate

MarketsSpec == MarketsInit /\ [][MarketsNext]_vars

QuietCatalogs == { {}, {CodeTable[1]} }
QuietMarketDocs == { AbsentDoc, Doc("object", << >>) }
DefaultFilter == FilterMarkets(<< << "K", "R", "W" >>, << "U", "S", "D", "T" >> >>)

\* every page and every NOTICES_CACHE_FILE; the page changes
NoticesInit ==
    /\ upbit_markets \in QuietCatalogs
    /\ cache_file \in QuietMarketDocs
    /\ FILTER_MARKETS = DefaultFilter
    /\ QuietSink
    /\ Init

NoticesNext == Program \/ PageUpdate

NoticesSpec == NoticesInit /\ [][NoticesNext]_vars

\* every chat setting, the messaging service comes and goes; every catalog,
\* the catalog changes; the default filter
DispatchInit ==
    /\ upbit_notices \in QuietPages
    /\ notices_cache_file \in QuietNoticeDocs
    /\ cache_file \in QuietMarketDocs
    /\ FILTER_MARKETS = DefaultFilter
    /\ Init

\* the runs of bootstrap_baseline: every catalog and every page, each
\* document absent, not JSON, or an empty baseline; the process is stopped
\* when it is about to load the baseline, or before, and started again
BootInit ==
    /\ cache_file \in QuietMarketDocs \cup {CorruptDoc}
    /\ notices_cache_file \in QuietNoticeDocs \cup {CorruptDoc}
    /\ FILTER_MARKETS = DefaultFilter
    /\ QuietSink
    /\ Init

BootNext == Startup \/ BootstrapMarkets \/ BootstrapNotices \/ Restart

BootSpec == BootInit /\ [][BootNext]_vars

\* the two threads, every interleaving of their steps; quiet sources that
\* do not change, the fetches and the saves fail or not in every cycle
HealthInit ==
    /\ upbit_markets \in QuietCatalogs
    /\ cache_file \in QuietMarketDocs
    /\ upbit_notices \in QuietPages
    /\ notices_cache_file \in QuietNoticeDocs
    /\ FILTER_MARKETS = DefaultFilter
    /\ QuietSink
    /\ Init

HealthNext == Program \/ Health

HealthSpec == HealthInit /\ [][HealthNext]_vars

\* the process is stopped at any point and started again; every catalog,
\* the sources do not change
RestartInit ==
    /\ cache_file \in QuietMarketDocs
    /\ upbit_notices \in QuietPages
    /\ notices_cache_file \in QuietNoticeDocs
    /\ FILTER_MARKETS = DefaultFilter
    /\ QuietSink
    /\ Init

RestartNext == Program \/ Restart

RestartSpec == RestartInit /\ [][RestartNext]_vars

DispatchNext == Program \/ CatalogUpdate \/ SinkUpdate

DispatchSpec == DispatchInit /\ [][DispatchNext]_vars

\* the main thread is never stopped from outside: every step it can take, it
\* takes.  Every catalog, CACHE_FILE and filter; the sources stay as they are
\* at the start, the failures of every step stay possible in every cycle.
LoopLive == MarketsInit /\ [][Program]_vars /\ WF_vars(Program)

(* ------------------------------ claims -------------------------------- *)

\* C1: no market code is in the new-market message of two different cycles:
\* the codes of this cycle's message are not among those of earlier cycles.
\* The code replaces known_markets by the fetched catalog once the catalog
\* holds a new code, so a code that left the catalog is forgotten and is
\* notified again when it comes back.
C1_NeverNotifiedTwice == sent_markets \cap notified_markets = {}

\* C2: known_markets only grows: every step leaves every known code known.
\* MarketsPersist drops the codes the fetched catalog no longer holds.
C2_KnownMarketsGrows == [][known_markets \subseteq known_markets']_vars

\* C3 as stated: the bootstrap runs only when both documents are absent,
\* and a document that exists at the start is not changed before the loop.
C3_BootstrapOnlyWhenBothAbsent ==
    [][ /\ (pc = "start" /\ pc' = "boot_markets")
             => (cache_file.kind = "absent" /\ notices_cache_file.kind = "absent")
        /\ (pc \in {"start", "boot_markets", "boot_notices", "load", "started"}
              /\ cache_file.kind # "absent")
             => cache_file' = cache_file
        /\ (pc \in {"start", "boot_markets", "boot_notices", "load", "started"}
              /\ notices_cache_file.kind # "absent")
             => notices_cache_file' = notices_cache_file ]_vars

\* C3 as amended: the bootstrap runs exactly when at least one of the two
\* documents is absent at the start; when both exist the process goes
\* straight to main_loop, and no step outside the bootstrap and the loop
\* writes a document.
C3_BootstrapWhenSomeAbsent ==
    [][ /\ pc = "start"
             => /\ (pc' = "boot_markets")
                      <=> (cache_file.kind = "absent"
                             \/ notices_cache_file.kind = "absent")
                /\ (pc' = "load")
                      <=> (cache_file.kind # "absent"
                             /\ notices_cache_file.kind # "absent")
        /\ pc \in {"start", "load", "started"}
             => /\ cache_file' = cache_file
                /\ notices_cache_file' = notices_cache_file
        /\ pc' \in {"boot_markets", "boot_notices"}
             => pc \in {"start", "boot_markets"} ]_vars

\* C3, its case: the bootstrap has rewritten CACHE_FILE although the notice
\* document existed at the start (it still holds what it held, an empty list
\* of ids, and the second half of the bootstrap is about to rewrite it)
C3_Witness ==
    /\ pc = "boot_notices"
    /\ notices_cache_file = Doc("object", << >>)
    /\ cache_file.kind = "object"
    /\ cache_file.val # << >>

\* the pages whose every item is already known (nothing left to notify)
PageKnown == IdsOf(ParseNotices(upbit_notices)) \subseteq known_notice_ids

\* C4: after a start with no document, the first cycle that ran both steps
\* to their end on the sources as they were at the start has sent no
\* new-market message and found no fresh notice, whatever the bootstrap's
\* fetches did.  A bootstrap whose fetch_markets raised leaves no
\* CACHE_FILE, and one whose notice request failed saves an empty list.
C4_ColdStartIsQuiet ==
    (cold_unchanged /\ pc = "mark" /\ markets_ok /\ notices_ok /\ PageKnown)
        => (sent_markets = {} /\ fresh = << >>)

\* C5: the fresh items handed to notify_new_notices hold each id once.
\* fetch_listing_notices appends one item per anchor and the membership
\* test looks only at known_notice_ids.
C5_FreshIdsDistinct ==
    \A i, j \in 1..Len(fresh) : i # j => fresh[i].id # fresh[j].id

\* the codes of a set that start, upper-cased, with one of the prefixes
Passing(codes, prefixes) ==
    {c \in codes :
        \E i \in 1..Len(prefixes) :
            /\ Len(prefixes[i]) <= Len(c)
            /\ Upper(SubSeq(c, 1, Len(prefixes[i]))) = prefixes[i]}

\* the markets step has saved or failed, and there were new codes
MarketsStepDone ==
    pc \in {"n_fetch", "n_notify", "n_persist", "mark", "mark_ok_at", "sleep"}

C7_FailedFetchLeavesBaseline ==
    [][ /\ (pc = "m_fetch" /\ pc' = "n_fetch" /\ ~markets_ok')
             => /\ UNCHANGED << known_markets, cache_file, sent_markets >>
                /\ sent_markets = {}
        /\ pc \in {"n_fetch", "n_notify", "n_persist", "mark", "mark_ok_at"}
             => UNCHANGED << known_markets, cache_file, sent_markets, markets_ok >>
        /\ pc = "sleep" => last_cycle_ok = markets_ok ]_vars

\* C7, its case: a cycle has ended whose fetch raised although the catalog
\* held a code that was not known; nothing was notified and the status is
\* false
C7_Witness ==
    /\ pc = "sleep"
    /\ ~markets_ok
    /\ new_markets = << >>
    /\ upbit_markets \ known_markets # {}
    /\ sent_markets = {}
    /\ ~last_cycle_ok

\* the notices step is over
NoticesStepDone == pc \in {"mark", "mark_ok_at", "sleep"}

\* C8: whatever the notices step did, a markets step that succeeded with new
\* codes has notified, replaced and saved the baseline, and the cycle ends
\* with ok = true; whatever the markets step did, the notices step is
\* entered (the marking is reached only through it), reads the page against
\* known_notice_ids, and when it succeeded with fresh items their ids are
\* known and saved.
C8_StepsIsolated ==
    [][ /\ (NoticesStepDone /\ markets_ok /\ new_markets # << >>)
             => /\ known_markets = current
                /\ cache_file = Doc("object", SortStrings(current))
                /\ sent_markets = Passing(Range(new_markets), FILTER_MARKETS)
        /\ (pc = "sleep" /\ markets_ok) => last_cycle_ok
        /\ (pc' = "mark" /\ pc # "mark") => pc \in {"n_fetch", "n_persist"}
        /\ pc \in {"m_fetch", "m_persist"} => pc' \in {"m_notify", "n_fetch"}
        /\ pc = "n_fetch"
             => \/ ~notices_ok' /\ pc' = "mark"
                \/ fresh' = << >> /\ notices_ok' /\ pc' = "mark"
                \/ /\ fresh' # << >>
                   /\ IdsOf(fresh') = IdsOf(ParseNotices(upbit_notices)) \ known_notice_ids
                   /\ pc' = "n_notify"
        /\ (NoticesStepDone /\ notices_ok /\ fresh # << >>)
             => /\ IdsOf(fresh) \subseteq known_notice_ids
                /\ notices_cache_file = Doc("object", SortIds(known_notice_ids)) ]_vars

\* C8, its case: a cycle has ended in which the notices step raised and the
\* markets step had found, notified and saved a new code; ok is true
C8_Witness ==
    /\ pc = "sleep"
    /\ ~notices_ok
    /\ markets_ok
    /\ sent_markets # {}
    /\ KnownOf(cache_file) = current
    /\ last_cycle_ok

\* the main thread is inside the while loop
InLoop ==
    pc \in {"m_fetch", "m_notify", "m_persist", "n_fetch", "n_notify",
            "n_persist", "mark", "mark_ok_at", "sleep"}

\* C9: from every state inside the loop the thread reaches the sleep, and
\* from the sleep the next cycle's fetch: the cycles never end.
C9_LoopNeverEnds ==
    /\ (InLoop ~> pc = "sleep")
    /\ (pc = "sleep" ~> pc = "m_fetch")

\* C9, its case: a cycle has reached the sleep after both of its steps
\* ended in their handlers, the markets step in its save
C9_Witness ==
    /\ pc = "sleep"
    /\ ~markets_ok
    /\ new_markets # << >>
    /\ ~notices_ok

\* C10: whatever the two documents hold, the load before the loop goes on
\* to the start message, and a document that is missing, unparseable or not
\* the object the program writes gives the empty known set.  A document
\* that is a JSON list has no .get, and set(None) raises for a null field:
\* both end the process before the loop.
C10_LoadTolerates ==
    [][ pc = "load"
          => /\ pc' = "started"
             /\ cache_file.kind # "object" => known_markets' = {}
             /\ notices_cache_file.kind # "object" => known_notice_ids' = {} ]_vars

\* the part of C11 about the cycle of the failed or skipped dispatch: the
\* persist step that follows it still adds every new item to the known set,
\* saves it (when save_cache does not raise) and goes on to the next step
DispatchKeepsBaseline ==
    /\ (pc = "m_persist" /\ markets_dispatch \in {"failed", "skipped"})
         => /\ Range(new_markets) \subseteq known_markets'
            /\ markets_ok' => Range(new_markets) \subseteq KnownOf(cache_file')
            /\ pc' = "n_fetch"
    /\ (pc = "n_persist" /\ notices_dispatch \in {"failed", "skipped"})
         => /\ IdsOf(fresh) \subseteq known_notice_ids'
            /\ notices_ok' => IdsOf(fresh) \subseteq KnownOf(notices_cache_file')
            /\ pc' = "mark"

\* C11: a dispatch that failed (the service was unreachable) or was skipped
\* (no CHAT_ID) blocks nothing: the persist step is as after a delivery, and
\* no later cycle hands to send_message a market code of a message that
\* failed or was skipped, nor a notice id of an earlier message.  The first
\* part holds; a code whose dispatch failed is forgotten with the rest of
\* known_markets once it leaves the catalog (C1) and is notified again.
C11_FailedDispatchNotRepeated ==
    [][ /\ DispatchKeepsBaseline
        /\ pc = "m_notify" => sent_markets' \cap undelivered_markets = {}
        /\ pc = "n_notify" => sent_notices' \cap notified_notices = {} ]_vars

\* the steps of a cycle that fetch, notify and persist
CycleSteps ==
    pc \in {"m_fetch", "m_notify", "m_persist", "n_fetch", "n_notify", "n_persist"}

\* C12: a cycle that follows a cycle that succeeded in both steps, on the
\* sources as that cycle read them, changes neither known set and neither
\* document and hands nothing to send_message; and no cycle at all hands to
\* send_message a market code or a notice id that is in its known set.
C12_SteadyCycleIdempotent ==
    [][ /\ (steady /\ CycleSteps)
             => /\ UNCHANGED << known_markets, known_notice_ids, cache_file,
                                notices_cache_file >>
                /\ sent_markets' = {}
                /\ sent_notices' = {}
        /\ pc = "m_notify" => sent_markets' \cap known_markets = {}
        /\ pc = "n_notify" => sent_notices' \cap known_notice_ids = {} ]_vars

\* C12, its case: the second of two cycles that read the same catalog and
\* the same page, both not empty, has run both steps; a code of the catalog
\* and an id of the page were notified in an earlier cycle
C12_Witness ==
    /\ pc = "mark"
    /\ steady
    /\ markets_ok
    /\ notices_ok
    /\ current = upbit_markets
    /\ notices = ParseNotices(upbit_notices)
    /\ notified_markets \cap current # {}
    /\ notified_notices \cap IdsOf(notices) # {}
    /\ sent_markets = {}
    /\ sent_notices = {}

\* the fetches of the two try blocks of a run: whether each raised, and
\* what it returned
Responses(run) == [i \in 1..Len(run) |-> << run[i].raised, run[i].data >>]

\* a second run of bootstrap_baseline has returned
SecondRunDone == pc = "load" /\ Len(boot_run) = 2 /\ prev_boot # NoRun

C14_AddedOnlyIfNotified ==
    [][ InLoop
          => /\ (known_markets' \ known_markets) \subseteq sent_markets
             /\ (known_notice_ids' \ known_notice_ids) \subseteq sent_notices ]_vars

\* C14 as amended: inside the loop a known set changes only in the persist
\* step, which is entered only from the notify step of the same cycle; the
\* codes it adds were handed to notify_new_markets, those of them that pass
\* the prefix filter are in the message handed to send_message, and every
\* notice id it adds is in the notice message.
C14_AddedAfterNotifyStep ==
    [][ /\ (InLoop /\ pc # "m_persist") => UNCHANGED known_markets
        /\ (InLoop /\ pc # "n_persist") => UNCHANGED known_notice_ids
        /\ pc' = "m_persist" => pc = "m_notify"
        /\ pc' = "n_persist" => pc = "n_notify"
        /\ pc = "m_persist"
             => /\ (known_markets' \ known_markets) \subseteq Range(new_markets)
                /\ Passing(known_markets' \ known_markets, FILTER_MARKETS)
                       \subseteq sent_markets
        /\ pc = "n_persist"
             => (known_notice_ids' \ known_notice_ids) \subseteq sent_notices ]_vars

\* C14, its case: both steps of a cycle have added to their known sets; the
\* notice id and one code were sent, the other code, which does not pass
\* the filter, is known and was in no message
C14_Witness ==
    /\ pc = "mark"
    /\ sent_notices # {}
    /\ sent_notices \subseteq known_notice_ids
    /\ Len(new_markets) = 2
    /\ sent_markets # {}
    /\ sent_markets \subseteq known_markets
    /\ (known_markets \ sent_markets) \cap Range(new_markets) # {}

\* C15: the pair a /health request returns is a pair the status was at
\* some instant between the request's first read and its return.  health()
\* reads the two globals one after the other and mark_ok writes them one
\* after the other, with no lock: a request that read ok = false before
\* mark_ok and last_cycle_at after it returns a pair the status never was.
C15_HealthReturnsSnapshot == hpc = "done" => << h_ok, h_at >> \in h_seen

\* the set main_loop would load from a document
Persisted(doc) == KnownOf(load_cache(doc, Doc("object", << >>)))

\* C16: at the end of every cycle each document holds its known set: what
\* main_loop would load from CACHE_FILE is known_markets, and what it would
\* load from NOTICES_CACHE_FILE is known_notice_ids.  The known set is
\* assigned before save_cache is called, so a save that raises leaves the
\* document behind the known set, and no later cycle saves again until the
\* source brings something new.
C16_DocumentsHoldKnownSets ==
    pc = "sleep"
        => /\ Persisted(cache_file) = known_markets
           /\ Persisted(notices_cache_file) = known_notice_ids

\* C17: with sources that do not change, whenever the process is stopped
\* and started again, no message holds a market code or a notice id that an
\* earlier message held, one sent before the stop included.  Both steps
\* notify first and save after: a process stopped between the two starts
\* again from a document without the item, and notifies it again.
C17_NoRepeatAfterRestart ==
    [][ /\ pc = "m_notify" => sent_markets' \cap notified_markets = {}
        /\ pc = "n_notify" => sent_notices' \cap notified_notices = {} ]_vars

\* the main thread has not reached the loop
BeforeLoop == pc \in {"start", "boot_markets", "boot_notices", "load", "started"}

\* C18: when a cycle is over ok is the outcome of its markets step, whatever
\* the notices step did; the timestamp changes in the cycles whose markets
\* step succeeded, to an instant that is not null, and in no other step:
\* mark_fail leaves it as it is; before the loop, and in the first cycle up
\* to its marking, ok is true and the timestamp is null.
C18_StatusFollowsMarketsStep ==
    [][ /\ pc' = "sleep" => last_cycle_ok' = markets_ok'
        /\ pc = "mark"
             => /\ pc' = (IF markets_ok THEN "mark_ok_at" ELSE "sleep")
                /\ last_cycle_at' = last_cycle_at
        /\ pc = "mark_ok_at"
             => /\ markets_ok
                /\ last_cycle_at' # last_cycle_at
                /\ last_cycle_at' # NoTimestamp
        /\ pc # "mark_ok_at" => last_cycle_at' = last_cycle_at
        /\ pc # "mark" => last_cycle_ok' = last_cycle_ok
        /\ BeforeLoop => (last_cycle_ok /\ last_cycle_at = NoTimestamp) ]_vars

\* C18, its case: a cycle whose markets step failed, and whose notices step
\* did not, is over after an earlier cycle succeeded: ok is false and the
\* timestamp is still the one of the earlier cycle
C18_Witness ==
    /\ pc = "sleep"
    /\ ~markets_ok
    /\ notices_ok
    /\ ~last_cycle_ok
    /\ last_cycle_at # NoTimestamp

====
